---------------------------- MODULE Spec2Model ----------------------------
(***************************************************************************)
(* KASan runtime of Circle (lib/kasan.cpp): shadow memory, access          *)
(* validation, heap redzone hooks, global registration, bug reporting.     *)
(*                                                                         *)
(* Addresses are unsigned integers of AddrBits bits (uintptr); the memory  *)
(* map is a scaled-down Circle memory map, RAM and shadow region lying in  *)
(* the lower half of the address space:                                    *)
(*   [0, LowMemSize)                    low memory, containing             *)
(*        [GlobalsStart, MEM_SHADOW_START)   instrumented globals          *)
(*        [MEM_SHADOW_START, +ShadowMemSize) the shadow region             *)
(*   [LowMemSize, GIGABYTE)             GPU and I/O window                 *)
(*   [GIGABYTE, GIGABYTE+HighMemSize)   high heap, holding the heap blocks *)
(* The granule size (8), the magic tags and the redzone sizes are the      *)
(* program's own values.                                                   *)
(***************************************************************************)
EXTENDS Integers, Sequences, FiniteSets, TLC

\* ------------------------------------------------------------------------
\* Bounds of the model
\* ------------------------------------------------------------------------
MaxSteps == 3          \* heap / registration operations per behaviour
MaxInits == 2          \* calls of KasanInitialize per behaviour
MaxChecks == 2         \* instrumented accesses (check calls) per behaviour
MaxAllocSize == 10     \* largest size requested from allocate/reallocate
MaxGlobalSize == 10    \* largest size of a registered global
MaxAccess == 10        \* largest access size the properties quantify over
MaxShadowOps == 2      \* direct shadow updates per behaviour

\* ------------------------------------------------------------------------
\* Program constants
\* ------------------------------------------------------------------------
KASAN_SHADOW_SHIFT == 3
KASAN_SHADOW_GRANULE_SIZE == 2 ^ KASAN_SHADOW_SHIFT
KASAN_SHADOW_MASK == KASAN_SHADOW_GRANULE_SIZE - 1

ASAN_SHADOW_UNPOISONED_MAGIC == 0
ASAN_SHADOW_RESERVED_MAGIC == 255
ASAN_SHADOW_GLOBAL_REDZONE_MAGIC == 249
ASAN_SHADOW_HEAP_HEAD_REDZONE_MAGIC == 250
ASAN_SHADOW_HEAP_TAIL_REDZONE_MAGIC == 251
ASAN_SHADOW_HEAP_FREE_MAGIC == 253

\* HEAP_BLOCK_ALIGN of Circle's heap allocator
KASAN_HEAP_HEAD_REDZONE_SIZE == 64
KASAN_HEAP_TAIL_REDZONE_SIZE == 32

\* ------------------------------------------------------------------------
\* Memory map (circle/memorymap.h, CMemorySystem), scaled down
\* ------------------------------------------------------------------------
AddrBits == 11
AddrSpace == 2 ^ AddrBits
GlobalsStart == 64
MEM_SHADOW_START == 192
LowMemSize == 320
GIGABYTE == 384
HighMemSize == 256
ShadowMemSize == (GIGABYTE + HighMemSize) \div KASAN_SHADOW_GRANULE_SIZE

\* the blocks the heap allocator can hand out (start addresses), each
\* BlockSize long: two adjacent blocks, the second ending at the top of
\* high memory
BlockSize == 128
Blocks == {GIGABYTE, GIGABYTE + BlockSize}

NULL == 0
Free == -1
Byte == 0 .. 255

\* unsigned arithmetic of uintptr / size_t
U(x) == x % AddrSpace

Min(S) == CHOOSE x \in S : \A y \in S : x <= y

\* the data window: two granules of real memory whose contents the model keeps
DataAddrs == GlobalsStart .. (GlobalsStart + 2 * KASAN_SHADOW_GRANULE_SIZE - 1)

\* the addresses unsigned int and uintptr agree on when uintptr is the wider
\* type: the lower half of the address space, RAM and shadow region included
UIntBits == AddrBits - 1

\* the width of unsigned int: that of uintptr in a 32-bit build, half of it
\* in a 64-bit build
UIntWidths == {UIntBits, AddrBits}

\* a value converted to unsigned int of the given width
ToUInt(x, bits) == x % (2 ^ bits)

\* the shadow bytes the model keeps: one for every granule of the lower half
\* of the address space
ShadowAddrs ==
    MEM_SHADOW_START .. (MEM_SHADOW_START + (2 ^ UIntBits \div KASAN_SHADOW_GRANULE_SIZE) - 1)

KASAN_MEM_TO_SHADOW(addr) == (addr \div KASAN_SHADOW_GRANULE_SIZE) + MEM_SHADOW_START
KASAN_SHADOW_TO_MEM(s) == U((s - MEM_SHADOW_START) * KASAN_SHADOW_GRANULE_SIZE)

\* (int8_t)x with "typedef char int8_t": plain char is signed in Circle's
\* build (-fsigned-char), so a shadow tag of 0x80..0xff is a negative count
\* faulty variant: plain char taken as unsigned
ToInt8_unsigned_char(b) == b
ToInt8(b) == IF b >= 128 THEN b - 256 ELSE b

\* (n + KASAN_SHADOW_MASK) & ~KASAN_SHADOW_MASK and n & ~KASAN_SHADOW_MASK
RoundUp8(n) ==
    ((n + KASAN_SHADOW_MASK) \div KASAN_SHADOW_GRANULE_SIZE) * KASAN_SHADOW_GRANULE_SIZE
RoundDown8(n) == n - (n % KASAN_SHADOW_GRANULE_SIZE)

VARIABLES
    g_kasan_initialized, \* readiness flag
    g_shadow_mem_end,
    g_low_mem_end,
    g_high_mem_end,
    shadow,              \* shadow memory, indexed by shadow address
    hdr,                 \* KASAN_HEAP_HEADER.aligned_size at the start of each block
    alloc,               \* per block: requested size of the live allocation, or Free
    log,                 \* sequence of bug reports emitted so far
    last,                \* the operation performed last, with arguments and result
    mem,                 \* the bytes of the data window (real memory)
    steps,
    inits,
    checks

vars == <<g_kasan_initialized, g_shadow_mem_end, g_low_mem_end, g_high_mem_end,
          shadow, hdr, alloc, log, last, mem, steps, inits, checks>>

\* ------------------------------------------------------------------------
\* ShadowMemoryMap
\* ------------------------------------------------------------------------
\* faulty variant: the fill runs one byte too far
kasan_memset_inclusive_end(sh, ptr, value, len) ==
    [a \in DOMAIN sh |-> IF ptr <= a /\ a <= ptr + len THEN value % 256 ELSE sh[a]]

\* __kasan_memset: the unchecked raw fill of len bytes of memory sh with
\* (unsigned char)value
kasan_memset(sh, ptr, value, len) ==
    [a \in DOMAIN sh |-> IF ptr <= a /\ a < ptr + len THEN value % 256 ELSE sh[a]]

\* __kasan_memcpy: the unchecked raw copy of len bytes inside memory m
kasan_memcpy(m, dst, src, len) ==
    [a \in DOMAIN m |-> IF dst <= a /\ a < dst + len THEN m[src + (a - dst)] ELSE m[a]]

\* faulty variant: the "+ 1" of shadow_end dropped
poison_shadow_short(sh, address, size, value) ==
    LET shadow_start == KASAN_MEM_TO_SHADOW(address)
        shadow_end == KASAN_MEM_TO_SHADOW(U(address + size - 1))
    IN  kasan_memset(sh, shadow_start, value, U(shadow_end - shadow_start))

poison_shadow(sh, address, size, value) ==
    LET shadow_start == KASAN_MEM_TO_SHADOW(address)
        shadow_end == KASAN_MEM_TO_SHADOW(U(address + size - 1)) + 1
        shadow_length == U(shadow_end - shadow_start)
    IN  kasan_memset(sh, shadow_start, value, shadow_length)

\* faulty variant: the partial last granule marked fully accessible
unpoison_shadow_whole_granules(sh, address, size) ==
    poison_shadow(sh, address, RoundUp8(size), ASAN_SHADOW_UNPOISONED_MAGIC)

unpoison_shadow(sh, address, size) ==
    LET sh1 == poison_shadow(sh, address, RoundDown8(size), ASAN_SHADOW_UNPOISONED_MAGIC)
    IN  IF size % KASAN_SHADOW_GRANULE_SIZE # 0
        THEN [sh1 EXCEPT ![KASAN_MEM_TO_SHADOW(U(address + size))] =
                              size % KASAN_SHADOW_GRANULE_SIZE]
        ELSE sh1

\* ------------------------------------------------------------------------
\* AccessValidator
\* ------------------------------------------------------------------------
\* the shadow addresses the scan loop reads, in order, up to the first non-zero byte
ScanRange(addr, size) ==
    LET addr_shadow_start == KASAN_MEM_TO_SHADOW(addr)
        addr_shadow_end == KASAN_MEM_TO_SHADOW(U(addr + size - 1)) + 1
    IN  addr_shadow_start .. (addr_shadow_start + U(addr_shadow_end - addr_shadow_start) - 1)

\* the scan loop of get_poisoned_shadow_address: the first of the given
\* shadow addresses that holds a non-zero byte, 0 when there is none
FirstNonZero(nz) == IF nz = {} THEN 0 ELSE Min(nz)

\* the test of get_poisoned_shadow_address on the result of its scan loop
PoisonedAt(sh, non_zero_shadow_addr, last_byte) ==
    IF non_zero_shadow_addr # 0
       /\ (\/ non_zero_shadow_addr # KASAN_MEM_TO_SHADOW(last_byte)
           \/ ToInt8(last_byte % KASAN_SHADOW_GRANULE_SIZE)
                >= ToInt8(sh[KASAN_MEM_TO_SHADOW(last_byte)]))
    THEN non_zero_shadow_addr ELSE 0

get_poisoned_shadow_address(sh, addr, size) ==
    PoisonedAt(sh, FirstNonZero({a \in ScanRange(addr, size) : sh[a] # 0}),
               U(addr + size - 1))

\* faulty variant: only the start of the range is tested against the end of
\* the shadow region and of the I/O region
FastAcceptRegion_start_only(addr, size) ==
    LET addr_end == U(addr + size - 1)
    IN  \/ (MEM_SHADOW_START <= addr /\ addr < g_shadow_mem_end)
        \/ (g_low_mem_end <= addr /\ addr < GIGABYTE)
        \/ g_high_mem_end <= addr_end

\* the region test of kasan_check_memory: shadow region, GPU and I/O region,
\* behind high heap
FastAcceptRegion(addr, size) ==
    LET addr_end == U(addr + size - 1)
    IN  \/ (MEM_SHADOW_START <= addr /\ addr_end < g_shadow_mem_end)
        \/ (g_low_mem_end <= addr /\ addr_end < GIGABYTE)
        \/ g_high_mem_end <= addr_end

\* kasan_bug_report: the header record handed to the diagnostic sink
\* the byte the report routines read at an address: a shadow byte, a byte of
\* the data window, or a byte of memory the model keeps no contents for, read
\* as 0
Peek(a) ==
    IF a \in DOMAIN shadow THEN shadow[a]
    ELSE IF a \in DOMAIN mem THEN mem[a]
    ELSE 0

\* "%02X": the two hexadecimal digits of a byte
Hex2(v) == <<(v % 256) \div 16, v % 16>>

\* one byte of a row as it is printed: the text before it, the address it was
\* read from, its two digits, the text after it
PrintedByte(pre, a, post) == [pre |-> pre, at |-> a, hex |-> Hex2(Peek(a)), post |-> post]

kasan_print_16_bytes_no_bug(address) ==
    [address |-> address,
     text |-> [k \in 1 .. 16 |-> PrintedByte(" ", address + (k - 1), "")]]

\* faulty variant: the loop after the delimited byte starts one byte early
kasan_print_16_bytes_with_bug_repeat(address, buggy_offset) ==
    [address |-> address,
     text |-> [k \in 1 .. buggy_offset |-> PrintedByte(" ", address + (k - 1), "")]
              \o <<PrintedByte("[", address + buggy_offset, "]")>>
              \o (IF buggy_offset < 15
                  THEN <<PrintedByte("", address + buggy_offset + 1, "")>>
                  ELSE <<>>)
              \o [k \in 1 .. (15 - buggy_offset) |->
                    PrintedByte(" ", address + buggy_offset + k, "")]]

kasan_print_16_bytes_with_bug(address, buggy_offset) ==
    [address |-> address,
     text |-> [k \in 1 .. buggy_offset |-> PrintedByte(" ", address + (k - 1), "")]
              \o <<PrintedByte("[", address + buggy_offset, "]")>>
              \o (IF buggy_offset < 15
                  THEN <<PrintedByte("", address + buggy_offset + 1, "")>>
                  ELSE <<>>)
              \o [k \in 1 .. (14 - buggy_offset) |->
                    PrintedByte(" ", address + buggy_offset + 1 + k, "")]]

\* kasan_print_shadow_memory: the title line and the rows, in the order they
\* are written
kasan_print_shadow_memory(address, range_before, range_after) ==
    LET shadow_address == KASAN_MEM_TO_SHADOW(address)
        aligned_shadow == shadow_address - (shadow_address % 16)
        buggy_offset == shadow_address - aligned_shadow
    IN  [title |-> [address |-> address, shadow |-> shadow_address],
         rows |-> [k \in 1 .. (range_before + 1 + range_after) |->
                     IF k <= range_before
                     THEN kasan_print_16_bytes_no_bug(aligned_shadow
                                                        - (range_before - k + 1) * 16)
                     ELSE IF k = range_before + 1
                     THEN kasan_print_16_bytes_with_bug(aligned_shadow, buggy_offset)
                     ELSE kasan_print_16_bytes_no_bug(aligned_shadow
                                                        + (k - range_before - 1) * 16)]]

\* kasan_bug_report: the header line (address, size, direction) with the
\* violating shadow address and the real address it is translated to
kasan_bug_report(addr, size, buggy_shadow_address, is_write) ==
    [addr |-> addr, size |-> size, shadow |-> buggy_shadow_address,
     buggy_address |-> KASAN_SHADOW_TO_MEM(buggy_shadow_address),
     is_write |-> is_write]

\* kasan_bug_report: the dump it writes after the header line, for each of
\* the given reports
ShadowDumps(reports) ==
    [i \in 1 .. Len(reports) |-> kasan_print_shadow_memory(reports[i].buggy_address, 3, 3)]

\* faulty variant: neither the readiness flag nor the regions are consulted
kasan_check_memory_ungated(addr, size, write) ==
    IF size = 0
    THEN [ret |-> 1, reports |-> <<>>, lookups |-> {}]
    ELSE LET buggy_shadow_address == get_poisoned_shadow_address(shadow, addr, size)
         IN  IF buggy_shadow_address = 0
             THEN [ret |-> 1, reports |-> <<>>, lookups |-> ScanRange(addr, size)]
             ELSE [ret |-> 0,
                   reports |-> <<kasan_bug_report(addr, size, buggy_shadow_address, write)>>,
                   lookups |-> ScanRange(addr, size)]

\* faulty variant: a rejected check is reported twice
kasan_check_memory_report_twice(addr, size, write) ==
    IF ~g_kasan_initialized \/ size = 0 \/ FastAcceptRegion(addr, size)
    THEN [ret |-> 1, reports |-> <<>>, lookups |-> {}]
    ELSE LET buggy_shadow_address == get_poisoned_shadow_address(shadow, addr, size)
             rep == kasan_bug_report(addr, size, buggy_shadow_address, write)
         IN  IF buggy_shadow_address = 0
             THEN [ret |-> 1, reports |-> <<>>, lookups |-> ScanRange(addr, size)]
             ELSE [ret |-> 0,
                   reports |-> <<rep, rep>>,
                   lookups |-> ScanRange(addr, size)]

\* kasan_check_memory: the return value, the reports it emits and the shadow
\* addresses its scan may read
\* the end of kasan_check_memory, on the result of the shadow lookup
CheckVerdict(addr, size, write, buggy_shadow_address) ==
    IF buggy_shadow_address = 0
    THEN [ret |-> 1, reports |-> <<>>, lookups |-> ScanRange(addr, size)]
    ELSE [ret |-> 0,
          reports |-> <<kasan_bug_report(addr, size, buggy_shadow_address, write)>>,
          lookups |-> ScanRange(addr, size)]

kasan_check_memory(addr, size, write) ==
    IF ~g_kasan_initialized \/ size = 0
    THEN [ret |-> 1, reports |-> <<>>, lookups |-> {}]
    ELSE IF FastAcceptRegion(addr, size)
    THEN [ret |-> 1, reports |-> <<>>, lookups |-> {}]
    ELSE CheckVerdict(addr, size, write, get_poisoned_shadow_address(shadow, addr, size))

\* ------------------------------------------------------------------------
\* HeapRedzoneWrapper
\* ------------------------------------------------------------------------
\* faulty variant: the tail redzone is left out of the total size
kasan_get_allocate_params_no_tail(nSize) ==
    LET aligned_size == U(RoundUp8(nSize))
        total_size == U(aligned_size + KASAN_HEAP_HEAD_REDZONE_SIZE)
    IN  [aligned_size |-> aligned_size, total_size |-> total_size]

kasan_get_allocate_params(nSize) ==
    LET aligned_size == U(RoundUp8(nSize))
        total_size == U(aligned_size + KASAN_HEAP_HEAD_REDZONE_SIZE
                        + KASAN_HEAP_TAIL_REDZONE_SIZE)
    IN  [aligned_size |-> aligned_size, total_size |-> total_size]

\* faulty variant: the payload is not unpoisoned
kasan_shadow_allocated_no_unpoison(sh, ptr, nSize, aligned_size) ==
    LET sh2 == poison_shadow(sh, ptr, KASAN_HEAP_HEAD_REDZONE_SIZE,
                             ASAN_SHADOW_HEAP_HEAD_REDZONE_MAGIC)
    IN  poison_shadow(sh2, ptr + KASAN_HEAP_HEAD_REDZONE_SIZE + aligned_size,
                      KASAN_HEAP_TAIL_REDZONE_SIZE, ASAN_SHADOW_HEAP_TAIL_REDZONE_MAGIC)

\* faulty variant: the tail redzone is poisoned up to a whole block's length
kasan_shadow_allocated_long_tail(sh, ptr, nSize, aligned_size) ==
    LET sh1 == unpoison_shadow(sh, ptr + KASAN_HEAP_HEAD_REDZONE_SIZE, nSize)
        sh2 == poison_shadow(sh1, ptr, KASAN_HEAP_HEAD_REDZONE_SIZE,
                             ASAN_SHADOW_HEAP_HEAD_REDZONE_MAGIC)
    IN  poison_shadow(sh2, ptr + KASAN_HEAP_HEAD_REDZONE_SIZE + aligned_size,
                      BlockSize, ASAN_SHADOW_HEAP_TAIL_REDZONE_MAGIC)

\* kasan_shadow_allocated: the shadow state it leaves (the header is stored
\* by the calling action)
kasan_shadow_allocated(sh, ptr, nSize, aligned_size) ==
    LET sh1 == unpoison_shadow(sh, ptr + KASAN_HEAP_HEAD_REDZONE_SIZE, nSize)
        sh2 == poison_shadow(sh1, ptr, KASAN_HEAP_HEAD_REDZONE_SIZE,
                             ASAN_SHADOW_HEAP_HEAD_REDZONE_MAGIC)
    IN  poison_shadow(sh2, U(ptr + KASAN_HEAP_HEAD_REDZONE_SIZE + aligned_size),
                      KASAN_HEAP_TAIL_REDZONE_SIZE, ASAN_SHADOW_HEAP_TAIL_REDZONE_MAGIC)

\* faulty variant: the freed payload is left accessible
free_poison_skipped(sh, ptr, aligned_size) == sh

\* faulty variant: the whole block, redzones included, poisoned as freed
free_poison_with_redzones(sh, ptr, aligned_size) ==
    poison_shadow(sh, ptr - KASAN_HEAP_HEAD_REDZONE_SIZE,
                  KASAN_HEAP_HEAD_REDZONE_SIZE + aligned_size + KASAN_HEAP_TAIL_REDZONE_SIZE,
                  ASAN_SHADOW_HEAP_FREE_MAGIC)

\* KasanFreeHook: the payload poisoned as freed
free_poison(sh, ptr, aligned_size) ==
    poison_shadow(sh, ptr, aligned_size, ASAN_SHADOW_HEAP_FREE_MAGIC)

\* kasan_heap_hdr->aligned_size = aligned_size: the values the unsigned int
\* field can receive from the size_t, one for each width of unsigned int
HeaderValues(aligned_size) == {ToUInt(aligned_size, bits) : bits \in UIntWidths}

\* faulty variant: the old payload is left accessible
realloc_poison_old_skipped(sh, old_ptr, aligned_size) == sh

\* KasanReAllocateHook: the old payload poisoned as freed before the resize
realloc_poison_old(sh, old_ptr, aligned_size) ==
    poison_shadow(sh, old_ptr, aligned_size, ASAN_SHADOW_HEAP_FREE_MAGIC)

\* CHeapAllocator::DoAllocate: null, or any free block that is large enough
DoAllocate(total_size) ==
    {NULL} \cup {b \in Blocks : alloc[b] = Free /\ total_size <= BlockSize}

\* CHeapAllocator::DoReAllocate: null, the block itself when the new size fits,
\* or another free block that is large enough
DoReAllocate(blk, total_size) ==
    {NULL} \cup {b \in Blocks : (b = blk \/ alloc[b] = Free) /\ total_size <= BlockSize}

\* sizes requested from the heap
AllocSizes == {0, 8, MaxAllocSize}

\* payload pointers of the live allocations
LivePtrs == {b + KASAN_HEAP_HEAD_REDZONE_SIZE : b \in {x \in Blocks : alloc[x] # Free}}

\* the record of an operation: its arguments and result, the entry point it
\* came through, and the calls it made to the heap allocator and the header
\* reads it did (trace)
NoOp == [op |-> "none", ptr |-> 0, size |-> 0, old |-> 0, ret |-> 0,
         write |-> FALSE, table |-> <<>>, entry |-> "", src |-> 0, value |-> 0,
         trace |-> <<>>, again |-> FALSE]

\* a call of the heap allocator, or a read of an allocation header
Call(fn, blk, size, res) == [fn |-> fn, blk |-> blk, size |-> size, res |-> res]

Budget == steps < MaxSteps /\ steps' = steps + 1

\* ------------------------------------------------------------------------
\* GlobalRedzoneRegistrar
\* ------------------------------------------------------------------------
\* faulty variant: the redzone poisoned from start + size, not from the
\* aligned size
asan_register_global_unaligned(sh, global) ==
    LET sh1 == unpoison_shadow(sh, global.start, global.size)
    IN  poison_shadow(sh1, global.start + global.size,
                      U(global.size_with_redzone - global.size),
                      ASAN_SHADOW_GLOBAL_REDZONE_MAGIC)

\* faulty variant: a global whose redzone is already poisoned is made
\* accessible up to the end of its redzone
asan_register_global_toggle(sh, global) ==
    LET sh1 == unpoison_shadow(sh, global.start, global.size)
        aligned_size == U(RoundUp8(global.size))
    IN  IF sh[KASAN_MEM_TO_SHADOW(global.start + aligned_size)]
              = ASAN_SHADOW_GLOBAL_REDZONE_MAGIC
        THEN poison_shadow(sh1, global.start + aligned_size,
                           U(global.size_with_redzone - aligned_size),
                           ASAN_SHADOW_UNPOISONED_MAGIC)
        ELSE poison_shadow(sh1, global.start + aligned_size,
                           U(global.size_with_redzone - aligned_size),
                           ASAN_SHADOW_GLOBAL_REDZONE_MAGIC)

\* faulty variant: a redzone is poisoned in front of the global too
asan_register_global_leading_redzone(sh, global) ==
    LET sh1 == unpoison_shadow(sh, global.start, global.size)
        aligned_size == U(RoundUp8(global.size))
        sh2 == poison_shadow(sh1, global.start + aligned_size,
                             U(global.size_with_redzone - aligned_size),
                             ASAN_SHADOW_GLOBAL_REDZONE_MAGIC)
    IN  poison_shadow(sh2, global.start - KASAN_SHADOW_GRANULE_SIZE,
                      KASAN_SHADOW_GRANULE_SIZE, ASAN_SHADOW_GLOBAL_REDZONE_MAGIC)

asan_register_global(sh, global) ==
    LET sh1 == unpoison_shadow(sh, global.start, global.size)
        aligned_size == U(RoundUp8(global.size))
    IN  poison_shadow(sh1, global.start + aligned_size,
                      U(global.size_with_redzone - aligned_size),
                      ASAN_SHADOW_GLOBAL_REDZONE_MAGIC)

\* the loop of __asan_register_globals from index i on
RECURSIVE asan_register_globals_from(_, _, _, _)
asan_register_globals_from(sh, globals, i, size) ==
    IF i < size
    THEN asan_register_globals_from(asan_register_global(sh, globals[i + 1]),
                                    globals, i + 1, size)
    ELSE sh

\* descriptor tables the instrumentation emits: one or two globals, each
\* padded to a multiple of 32 bytes
GlobalSizes == {1, 8, MaxGlobalSize}
GlobalDescs(start) ==
    {[start |-> start, size |-> s, size_with_redzone |-> r] :
        s \in GlobalSizes, r \in {32, 64}}
GlobalTables ==
    {<<d>> : d \in GlobalDescs(GlobalsStart)}
    \cup {<<d0, d1>> : d0 \in GlobalDescs(GlobalsStart), d1 \in GlobalDescs(GlobalsStart + 64)}

\* ------------------------------------------------------------------------
\* Lifecycle
\* ------------------------------------------------------------------------
\* before KasanInitialize the shadow region is whatever the RAM holds
JunkBytes == {ASAN_SHADOW_HEAP_FREE_MAGIC}

Init ==
    /\ g_kasan_initialized = FALSE
    /\ g_shadow_mem_end = 0
    /\ g_low_mem_end = 0
    /\ g_high_mem_end = 0
    /\ \E j \in JunkBytes : shadow = [a \in ShadowAddrs |-> j]
    /\ hdr = [b \in Blocks |-> 0]
    /\ alloc = [b \in Blocks |-> Free]
    /\ log = <<>>
    /\ last = NoOp
    /\ mem = [a \in DataAddrs |-> a % 256]
    /\ steps = 0
    /\ inits = 0
    /\ checks = 0

\* faulty variant: the shadow region is zero-filled after it was marked
\* reserved
KasanInitialize_fill_after_reserve ==
    /\ inits < MaxInits
    /\ inits' = inits + 1
    /\ g_shadow_mem_end' = MEM_SHADOW_START + ShadowMemSize
    /\ g_low_mem_end' = LowMemSize
    /\ g_high_mem_end' = GIGABYTE + HighMemSize
    /\ shadow' = kasan_memset(poison_shadow(shadow, MEM_SHADOW_START, ShadowMemSize,
                                            ASAN_SHADOW_RESERVED_MAGIC),
                              MEM_SHADOW_START, 0, ShadowMemSize)
    /\ g_kasan_initialized' = TRUE
    /\ last' = [NoOp EXCEPT !.op = "init"]
    /\ UNCHANGED <<hdr, alloc, log, mem, steps, checks>>

\* faulty variant: a repeated call leaves the shadow memory as it is
KasanInitialize_once ==
    /\ inits < MaxInits
    /\ inits' = inits + 1
    /\ g_shadow_mem_end' = MEM_SHADOW_START + ShadowMemSize
    /\ g_low_mem_end' = LowMemSize
    /\ g_high_mem_end' = GIGABYTE + HighMemSize
    /\ shadow' = IF g_kasan_initialized
                 THEN shadow
                 ELSE poison_shadow(kasan_memset(shadow, MEM_SHADOW_START, 0, ShadowMemSize),
                                    MEM_SHADOW_START, ShadowMemSize,
                                    ASAN_SHADOW_RESERVED_MAGIC)
    /\ g_kasan_initialized' = TRUE
    /\ last' = [NoOp EXCEPT !.op = "init"]
    /\ UNCHANGED <<hdr, alloc, log, mem, steps, checks>>

KasanInitialize ==
    /\ inits < MaxInits
    /\ inits' = inits + 1
    /\ g_shadow_mem_end' = MEM_SHADOW_START + ShadowMemSize
    /\ g_low_mem_end' = LowMemSize
    /\ g_high_mem_end' = GIGABYTE + HighMemSize
    /\ shadow' = poison_shadow(kasan_memset(shadow, MEM_SHADOW_START, 0, ShadowMemSize),
                               MEM_SHADOW_START, ShadowMemSize, ASAN_SHADOW_RESERVED_MAGIC)
    /\ g_kasan_initialized' = TRUE
    /\ last' = [NoOp EXCEPT !.op = "init"]
    /\ UNCHANGED <<hdr, alloc, log, mem, steps, checks>>

\* ------------------------------------------------------------------------
\* Heap hooks
\* ------------------------------------------------------------------------
\* faulty variant: the block is set up without testing the allocator's result
Allocate_no_null_test(sh, nSize, rec) ==
    LET allocate_params == kasan_get_allocate_params(nSize)
    IN  \E ptr \in DoAllocate(allocate_params.total_size) :
          /\ hdr' = [b \in Blocks |-> IF b = ptr THEN allocate_params.aligned_size
                                                 ELSE hdr[b]]
          /\ shadow' = kasan_shadow_allocated(sh, ptr, nSize, allocate_params.aligned_size)
          /\ alloc' = [b \in Blocks |-> IF b = ptr THEN nSize ELSE alloc[b]]
          /\ last' = [rec EXCEPT
                        !.trace = @ \o <<Call("DoAllocate", NULL,
                                              allocate_params.total_size, ptr)>>,
                        !.ret = ptr + KASAN_HEAP_HEAD_REDZONE_SIZE]

\* the body of KasanAllocateHook on shadow state sh; rec is the record of the
\* calling operation, completed with the allocator call and the returned
\* pointer
Allocate(sh, nSize, rec) ==
    LET allocate_params == kasan_get_allocate_params(nSize)
    IN  \E ptr \in DoAllocate(allocate_params.total_size) :
          LET called == [rec EXCEPT
                           !.trace = @ \o <<Call("DoAllocate", NULL,
                                                 allocate_params.total_size, ptr)>>]
          IN  IF ptr = NULL
              THEN /\ last' = [called EXCEPT !.ret = NULL]
                   /\ shadow' = sh
                   /\ UNCHANGED <<hdr, alloc>>
              ELSE /\ \E aligned_size \in HeaderValues(allocate_params.aligned_size) :
                        hdr' = [hdr EXCEPT ![ptr] = aligned_size]
                   /\ shadow' = kasan_shadow_allocated(sh, ptr, nSize,
                                                       allocate_params.aligned_size)
                   /\ alloc' = [alloc EXCEPT ![ptr] = nSize]
                   /\ last' = [called EXCEPT
                                 !.ret = ptr + KASAN_HEAP_HEAD_REDZONE_SIZE]

\* KasanAllocateHook called with one of the given sizes
AllocateHook(sizes) ==
    /\ Budget
    /\ \E nSize \in sizes :
         Allocate(shadow, nSize, [NoOp EXCEPT !.op = "alloc", !.size = nSize])
    /\ UNCHANGED <<g_kasan_initialized, g_shadow_mem_end, g_low_mem_end, g_high_mem_end,
                   log, mem, inits, checks>>

KasanAllocateHook == AllocateHook(AllocSizes)

\* the non-null path of KasanFreeHook
FreeBlock(pBlock) ==
    LET kasan_heap_hdr == pBlock - KASAN_HEAP_HEAD_REDZONE_SIZE
        aligned_size == hdr[kasan_heap_hdr]
    IN  /\ alloc' = [alloc EXCEPT ![kasan_heap_hdr] = Free]
        /\ shadow' = free_poison(shadow, pBlock, aligned_size)
        /\ last' = [NoOp EXCEPT
                      !.op = "free", !.ptr = pBlock, !.old = alloc[kasan_heap_hdr],
                      !.trace = <<Call("hdr", kasan_heap_hdr, 0, aligned_size),
                                  Call("DoFree", kasan_heap_hdr, 0, 0)>>]

\* faulty variant: a null pointer is freed like a block of one granule
KasanFreeHook_no_null_test ==
    /\ Budget
    /\ \E pBlock \in LivePtrs \cup {NULL} :
         IF pBlock = NULL
         THEN /\ last' = [NoOp EXCEPT !.op = "free",
                                      !.trace = <<Call("DoFree", NULL, 0, 0)>>]
              /\ shadow' = free_poison(shadow, NULL, KASAN_SHADOW_GRANULE_SIZE)
              /\ UNCHANGED alloc
         ELSE FreeBlock(pBlock)
    /\ UNCHANGED <<g_kasan_initialized, g_shadow_mem_end, g_low_mem_end, g_high_mem_end,
                   hdr, log, mem, inits, checks>>

\* faulty variant: the header is read through the access validator
KasanFreeHook_checked_header ==
    /\ Budget
    /\ \E pBlock \in LivePtrs \cup {NULL} :
         IF pBlock = NULL
         THEN /\ last' = [NoOp EXCEPT !.op = "free"]
              /\ UNCHANGED <<shadow, alloc, log>>
         ELSE /\ FreeBlock(pBlock)
              /\ log' = log \o kasan_check_memory(pBlock - KASAN_HEAP_HEAD_REDZONE_SIZE,
                                                  1, FALSE).reports
    /\ UNCHANGED <<g_kasan_initialized, g_shadow_mem_end, g_low_mem_end, g_high_mem_end,
                   hdr, mem, inits, checks>>

KasanFreeHook ==
    /\ Budget
    /\ \E pBlock \in LivePtrs \cup {NULL} :
         IF pBlock = NULL
         THEN /\ last' = [NoOp EXCEPT !.op = "free"]
              /\ UNCHANGED <<shadow, alloc>>
         ELSE FreeBlock(pBlock)
    /\ UNCHANGED <<g_kasan_initialized, g_shadow_mem_end, g_low_mem_end, g_high_mem_end,
                   hdr, log, mem, inits, checks>>

\* the non-null path of KasanReAllocateHook
ReAllocateBlock(pBlock, nSize) ==
    LET old_ptr == pBlock
        kasan_heap_hdr == old_ptr - KASAN_HEAP_HEAD_REDZONE_SIZE
        sh0 == realloc_poison_old(shadow, old_ptr, hdr[kasan_heap_hdr])
        allocate_params == kasan_get_allocate_params(nSize)
    IN  \E new_ptr \in DoReAllocate(kasan_heap_hdr, allocate_params.total_size) :
          LET rec == [NoOp EXCEPT
                        !.op = "realloc", !.ptr = pBlock, !.size = nSize,
                        !.old = alloc[kasan_heap_hdr],
                        !.trace = <<Call("hdr", kasan_heap_hdr, 0, hdr[kasan_heap_hdr]),
                                    Call("DoReAllocate", kasan_heap_hdr,
                                         allocate_params.total_size, new_ptr)>>]
          IN  IF new_ptr = NULL
              THEN /\ shadow' = sh0
                   /\ last' = [rec EXCEPT !.ret = NULL]
                   /\ UNCHANGED <<hdr, alloc>>
              ELSE /\ \E aligned_size \in HeaderValues(allocate_params.aligned_size) :
                        hdr' = [hdr EXCEPT ![new_ptr] = aligned_size]
                   /\ shadow' = kasan_shadow_allocated(sh0, new_ptr, nSize,
                                                       allocate_params.aligned_size)
                   /\ alloc' = [alloc EXCEPT ![kasan_heap_hdr] = Free,
                                             ![new_ptr] = nSize]
                   /\ last' = [rec EXCEPT
                                 !.ret = new_ptr + KASAN_HEAP_HEAD_REDZONE_SIZE]

\* faulty variant: a null block is not forwarded to KasanAllocateHook, null is
\* returned
KasanReAllocateHook_null_unsupported ==
    /\ Budget
    /\ \E pBlock \in LivePtrs \cup {NULL}, nSize \in AllocSizes :
         IF pBlock = NULL
         THEN /\ last' = [NoOp EXCEPT !.op = "realloc", !.size = nSize]
              /\ UNCHANGED <<shadow, hdr, alloc>>
         ELSE ReAllocateBlock(pBlock, nSize)
    /\ UNCHANGED <<g_kasan_initialized, g_shadow_mem_end, g_low_mem_end, g_high_mem_end,
                   log, mem, inits, checks>>

\* KasanReAllocateHook called with one of the given sizes; the size is an
\* ssize_t, converted to size_t where it is used
ReAllocateHook(sizes) ==
    /\ Budget
    /\ \E pBlock \in LivePtrs \cup {NULL}, nSize \in sizes :
         IF pBlock = NULL
         THEN Allocate(shadow, U(nSize), [NoOp EXCEPT !.op = "realloc", !.size = U(nSize)])
         ELSE ReAllocateBlock(pBlock, U(nSize))
    /\ UNCHANGED <<g_kasan_initialized, g_shadow_mem_end, g_low_mem_end, g_high_mem_end,
                   log, mem, inits, checks>>

KasanReAllocateHook == ReAllocateHook(AllocSizes)

\* ------------------------------------------------------------------------
\* Registration of globals
\* ------------------------------------------------------------------------
\* __asan_register_globals called with one of the given tables
RegisterGlobals(tables) ==
    /\ Budget
    /\ \E globals \in tables :
         /\ shadow' = asan_register_globals_from(shadow, globals, 0, Len(globals))
         /\ last' = [NoOp EXCEPT !.op = "register", !.table = globals,
                                 !.again = (last.op = "register" /\ last.table = globals)]
    /\ UNCHANGED <<g_kasan_initialized, g_shadow_mem_end, g_low_mem_end, g_high_mem_end,
                   hdr, alloc, log, mem, inits, checks>>

asan_register_globals == RegisterGlobals(GlobalTables)

\* the tables __asan_unregister_globals is called with
UnregisterTables ==
    {t \in GlobalTables :
        \A i \in 1 .. Len(t) : t[i].size = MaxGlobalSize /\ t[i].size_with_redzone = 32}

\* faulty variant: the first global of the table is made accessible up to the
\* end of its redzone
asan_unregister_globals_unpoison ==
    /\ Budget
    /\ \E globals \in UnregisterTables :
         /\ shadow' = poison_shadow(shadow, globals[1].start, globals[1].size_with_redzone,
                                    ASAN_SHADOW_UNPOISONED_MAGIC)
         /\ last' = [NoOp EXCEPT !.op = "unregister", !.table = globals]
    /\ UNCHANGED <<g_kasan_initialized, g_shadow_mem_end, g_low_mem_end, g_high_mem_end,
                   hdr, alloc, log, mem, inits, checks>>

\* __asan_unregister_globals: empty
asan_unregister_globals ==
    /\ Budget
    /\ \E globals \in UnregisterTables :
         last' = [NoOp EXCEPT !.op = "unregister", !.table = globals]
    /\ UNCHANGED <<g_kasan_initialized, g_shadow_mem_end, g_low_mem_end, g_high_mem_end,
                   shadow, hdr, alloc, log, mem, inits, checks>>

\* __asan_handle_no_return: empty
asan_handle_no_return ==
    /\ Budget
    /\ last' = [NoOp EXCEPT !.op = "no_return"]
    /\ UNCHANGED <<g_kasan_initialized, g_shadow_mem_end, g_low_mem_end, g_high_mem_end,
                   shadow, hdr, alloc, log, mem, inits, checks>>

\* __asan_before_dynamic_init: empty
asan_before_dynamic_init ==
    /\ Budget
    /\ last' = [NoOp EXCEPT !.op = "before_dynamic_init"]
    /\ UNCHANGED <<g_kasan_initialized, g_shadow_mem_end, g_low_mem_end, g_high_mem_end,
                   shadow, hdr, alloc, log, mem, inits, checks>>

\* __asan_after_dynamic_init: empty
asan_after_dynamic_init ==
    /\ Budget
    /\ last' = [NoOp EXCEPT !.op = "after_dynamic_init"]
    /\ UNCHANGED <<g_kasan_initialized, g_shadow_mem_end, g_low_mem_end, g_high_mem_end,
                   shadow, hdr, alloc, log, mem, inits, checks>>

\* ------------------------------------------------------------------------
\* InstrumentationABI: the load/store checks
\* ------------------------------------------------------------------------
\* the two granules whose shadow bytes the access checks are exercised on
CheckWindow == GlobalsStart

\* addresses and sizes of the instrumented accesses the behaviours perform
CheckAddrs == {CheckWindow, CheckWindow + KASAN_SHADOW_GRANULE_SIZE + 1}
CheckSizes == {1, KASAN_SHADOW_GRANULE_SIZE}

\* the entry points: __asan_load<w>_noabort and __asan_store<w>_noabort for
\* w in 1, 2, 4, 8, 16, __asan_loadN_noabort and __asan_storeN_noabort
FixedEntryPoints ==
    {"load1", "load2", "load4", "load8", "load16",
     "store1", "store2", "store4", "store8", "store16"}
EntryPoints == FixedEntryPoints \cup {"loadN", "storeN"}

\* the width a fixed-width entry point is generated for
EntryWidth(entry) ==
    CASE entry \in {"load1", "store1"} -> 1
      [] entry \in {"load2", "store2"} -> 2
      [] entry \in {"load4", "store4"} -> 4
      [] entry \in {"load8", "store8"} -> 8
      [] entry \in {"load16", "store16"} -> 16

\* load entry points pass is_write false, store entry points true
EntryIsWrite(entry) ==
    entry \in {"store1", "store2", "store4", "store8", "store16", "storeN"}

\* the size the caller asks the entry point to check
EntrySize(entry, size) == IF entry \in FixedEntryPoints THEN EntryWidth(entry) ELSE size

\* the arguments an entry point hands to kasan_check_memory: the fixed-width
\* entry points take the address as uintptr, __asan_loadN_noabort takes
\* address and size as unsigned int, __asan_storeN_noabort takes the address
\* as unsigned int and the size as size_t
asan_noabort(entry, addr, size, bits) ==
    CASE entry = "loadN" ->
           [addr |-> ToUInt(addr, bits), size |-> ToUInt(size, bits), write |-> FALSE]
      [] entry = "storeN" ->
           [addr |-> ToUInt(addr, bits), size |-> size, write |-> TRUE]
      [] OTHER ->
           [addr |-> addr, size |-> EntryWidth(entry), write |-> EntryIsWrite(entry)]

\* a call of an entry point by instrumented code
EntryCall(entry, addr, size, bits) ==
    LET a == asan_noabort(entry, addr, size, bits)
        r == kasan_check_memory(a.addr, a.size, a.write)
    IN  /\ log' = log \o r.reports
        /\ last' = [NoOp EXCEPT !.op = "check", !.entry = entry, !.ptr = addr,
                                !.size = EntrySize(entry, size),
                                !.write = a.write, !.ret = r.ret,
                                !.trace = ShadowDumps(r.reports)]

\* the instrumented accesses of a behaviour: N-byte loads and stores of the
\* check window
CheckAccess ==
    /\ checks < MaxChecks
    /\ checks' = checks + 1
    /\ \E entry \in {"loadN", "storeN"}, addr \in CheckAddrs, size \in CheckSizes,
          bits \in UIntWidths :
         EntryCall(entry, addr, size, bits)
    /\ UNCHANGED <<g_kasan_initialized, g_shadow_mem_end, g_low_mem_end, g_high_mem_end,
                   shadow, hdr, alloc, mem, steps, inits>>

\* addresses the entry points are called with: the check window, and an
\* address of the upper half of the address space, beyond every memory region
EntryAddrs == CheckAddrs \cup {2 ^ UIntBits + CheckWindow}

\* one call of any entry point
AsanEntryPoint ==
    /\ checks = 0
    /\ checks' = checks + 1
    /\ \E entry \in EntryPoints, addr \in EntryAddrs, size \in CheckSizes,
          bits \in UIntWidths :
         EntryCall(entry, addr, size, bits)
    /\ UNCHANGED <<g_kasan_initialized, g_shadow_mem_end, g_low_mem_end, g_high_mem_end,
                   shadow, hdr, alloc, mem, steps, inits>>

\* ------------------------------------------------------------------------
\* The memcpy and memset hooks
\* ------------------------------------------------------------------------
\* faulty variant: the copy is not done when a check rejected
memcpy_hook_stop_on_report(dst, src, size) ==
    LET w == kasan_check_memory(dst, size, TRUE)
        r == kasan_check_memory(src, size, FALSE)
    IN  IF w.ret = 1 /\ r.ret = 1
        THEN [reports |-> <<>>, mem |-> kasan_memcpy(mem, dst, src, size), ret |-> dst]
        ELSE [reports |-> w.reports \o r.reports, mem |-> mem, ret |-> NULL]

\* memcpy: the reports of its two checks, the memory it leaves, its result
memcpy_hook(dst, src, size) ==
    LET w == kasan_check_memory(dst, size, TRUE)
        r == kasan_check_memory(src, size, FALSE)
    IN  [reports |-> w.reports \o r.reports,
         mem |-> kasan_memcpy(mem, dst, src, size),
         ret |-> dst]

\* memset: the reports of its check, the memory it leaves, its result
memset_hook(buf, c, size) ==
    LET w == kasan_check_memory(buf, size, TRUE)
    IN  [reports |-> w.reports,
         mem |-> kasan_memset(mem, buf, c, size),
         ret |-> buf]

\* the buffers, fill values and sizes the hooks are called with: the two
\* granules of the data window, a value wider than a byte
CopyBuffers == {CheckWindow, CheckWindow + KASAN_SHADOW_GRANULE_SIZE}
FillValues == {421}

memcpy ==
    /\ checks < MaxChecks
    /\ checks' = checks + 1
    /\ \E dst \in CopyBuffers, src \in CopyBuffers, size \in CheckSizes :
         /\ dst # src
         /\ LET h == memcpy_hook(dst, src, size)
            IN  /\ log' = log \o h.reports
                /\ mem' = h.mem
                /\ last' = [NoOp EXCEPT !.op = "memcpy", !.ptr = dst, !.src = src,
                                        !.size = size, !.ret = h.ret,
                                        !.trace = ShadowDumps(h.reports)]
    /\ UNCHANGED <<g_kasan_initialized, g_shadow_mem_end, g_low_mem_end, g_high_mem_end,
                   shadow, hdr, alloc, steps, inits>>

memset ==
    /\ checks < MaxChecks
    /\ checks' = checks + 1
    /\ \E buf \in CopyBuffers, c \in FillValues, size \in CheckSizes :
         LET h == memset_hook(buf, c, size)
         IN  /\ log' = log \o h.reports
             /\ mem' = h.mem
             /\ last' = [NoOp EXCEPT !.op = "memset", !.ptr = buf, !.value = c,
                                     !.size = size, !.ret = h.ret,
                                     !.trace = ShadowDumps(h.reports)]
    /\ UNCHANGED <<g_kasan_initialized, g_shadow_mem_end, g_low_mem_end, g_high_mem_end,
                   shadow, hdr, alloc, steps, inits>>

\* shadow bytes the check window is given: accessible, partial counts and
\* reserved tags
PatternBytes == {0, 1, 7, 241, ASAN_SHADOW_RESERVED_MAGIC}

\* states of the access checks: before or after initialization, the two
\* shadow bytes of the check window written by earlier shadow updates
InitCheck ==
    /\ g_kasan_initialized \in BOOLEAN
    /\ g_shadow_mem_end = IF g_kasan_initialized THEN MEM_SHADOW_START + ShadowMemSize ELSE 0
    /\ g_low_mem_end = IF g_kasan_initialized THEN LowMemSize ELSE 0
    /\ g_high_mem_end = IF g_kasan_initialized THEN GIGABYTE + HighMemSize ELSE 0
    /\ \E p0, p1 \in PatternBytes :
         LET zero == [a \in ShadowAddrs |-> 0]
             base == IF g_kasan_initialized
                     THEN poison_shadow(zero, MEM_SHADOW_START, ShadowMemSize,
                                        ASAN_SHADOW_RESERVED_MAGIC)
                     ELSE zero
         IN  shadow = [base EXCEPT ![KASAN_MEM_TO_SHADOW(CheckWindow)] = p0,
                                   ![KASAN_MEM_TO_SHADOW(CheckWindow) + 1] = p1]
    /\ hdr = [b \in Blocks |-> 0]
    /\ alloc = [b \in Blocks |-> Free]
    /\ log = <<>>
    /\ last = NoOp
    /\ mem = [a \in DataAddrs |-> a % 256]
    /\ steps = 0
    /\ inits = 0
    /\ checks = 0

\* ------------------------------------------------------------------------
\* Shadow updates: poison_shadow, unpoison_shadow and the shadow-set routines
\* ------------------------------------------------------------------------
\* addresses, sizes and tags poison_shadow and unpoison_shadow are applied to:
\* granule-aligned addresses and one that is not, whole granules and a size
\* that is not a multiple of the granule
ShadowOpAddrs == {CheckWindow, CheckWindow + KASAN_SHADOW_GRANULE_SIZE,
                  CheckWindow + KASAN_SHADOW_GRANULE_SIZE + 4}
ShadowOpSizes == {0, 4, KASAN_SHADOW_GRANULE_SIZE, KASAN_SHADOW_GRANULE_SIZE + 4,
                  2 * KASAN_SHADOW_GRANULE_SIZE}
ShadowOpTags == {ASAN_SHADOW_GLOBAL_REDZONE_MAGIC, ASAN_SHADOW_RESERVED_MAGIC}

ShadowBudget == steps < MaxShadowOps /\ steps' = steps + 1

PoisonShadow ==
    /\ ShadowBudget
    /\ \E address \in ShadowOpAddrs, size \in ShadowOpSizes, value \in ShadowOpTags :
         /\ shadow' = poison_shadow(shadow, address, size, value)
         /\ last' = [NoOp EXCEPT !.op = "poison", !.ptr = address, !.size = size,
                                 !.value = value]
    /\ UNCHANGED <<g_kasan_initialized, g_shadow_mem_end, g_low_mem_end, g_high_mem_end,
                   hdr, alloc, log, mem, inits, checks>>

UnpoisonShadow ==
    /\ ShadowBudget
    /\ \E address \in ShadowOpAddrs, size \in ShadowOpSizes :
         /\ shadow' = unpoison_shadow(shadow, address, size)
         /\ last' = [NoOp EXCEPT !.op = "unpoison", !.ptr = address, !.size = size]
    /\ UNCHANGED <<g_kasan_initialized, g_shadow_mem_end, g_low_mem_end, g_high_mem_end,
                   hdr, alloc, log, mem, inits, checks>>

\* the tags of the __asan_set_shadow_xx routines: 00, f1, f2, f3, f5, f8
SetShadowBytes == {0, 241, 242, 243, 245, 248}

\* the shadow addresses and sizes the routines are called with
SetShadowAddrs == {KASAN_MEM_TO_SHADOW(CheckWindow)}
SetShadowSizes == {0, 1, 2}

\* __asan_set_shadow_00 .. __asan_set_shadow_f8
asan_set_shadow ==
    /\ ShadowBudget
    /\ \E byte \in SetShadowBytes, addr \in SetShadowAddrs, size \in SetShadowSizes :
         /\ shadow' = kasan_memset(shadow, addr, byte, size)
         /\ last' = [NoOp EXCEPT !.op = "set_shadow", !.ptr = addr, !.size = size,
                                 !.value = byte]
    /\ UNCHANGED <<g_kasan_initialized, g_shadow_mem_end, g_low_mem_end, g_high_mem_end,
                   hdr, alloc, log, mem, inits, checks>>

\* ------------------------------------------------------------------------
\* Specifications
\* ------------------------------------------------------------------------
\* the heap wrapper
Next ==
    \/ KasanInitialize
    \/ KasanAllocateHook
    \/ KasanFreeHook
    \/ KasanReAllocateHook

Spec == Init /\ [][Next]_vars

\* the registration of globals
NextGlobals ==
    \/ KasanInitialize
    \/ asan_register_globals
    \/ asan_unregister_globals
    \/ asan_handle_no_return
    \/ asan_before_dynamic_init
    \/ asan_after_dynamic_init

SpecGlobals == Init /\ [][NextGlobals]_vars

\* the access checks
NextCheck ==
    \/ KasanInitialize
    \/ CheckAccess

SpecCheck == InitCheck /\ [][NextCheck]_vars

\* the access validator as a function of the shadow state: one check applied
\* to each state
CheckOnce == checks = 0 /\ CheckAccess

NextValidator ==
    \/ KasanInitialize
    \/ CheckOnce

SpecValidator == InitCheck /\ [][NextValidator]_vars

\* the entry points of the instrumentation, one call applied to each state
NextABI ==
    \/ KasanInitialize
    \/ AsanEntryPoint

SpecABI == InitCheck /\ [][NextABI]_vars

\* the memcpy and memset hooks, after at most one instrumented access
NextMem ==
    \/ KasanInitialize
    \/ CheckOnce
    \/ memcpy
    \/ memset

SpecMem == InitCheck /\ [][NextMem]_vars

\* the shadow updates
NextShadow ==
    \/ KasanInitialize
    \/ PoisonShadow
    \/ UnpoisonShadow
    \/ asan_set_shadow

SpecShadow == Init /\ [][NextShadow]_vars

\* request sizes next to the top of size_t: roundUp8 wraps to 0 for the first,
\* the total size wraps for both; -1 is the first one as an ssize_t
WrapSizes == {AddrSpace - 1, AddrSpace - KASAN_HEAP_TAIL_REDZONE_SIZE}
WrapReSizes == {-1, MaxAllocSize}

\* the heap wrapper called with sizes of the whole range of size_t
NextSizes ==
    \/ KasanInitialize
    \/ AllocateHook(WrapSizes \cup {MaxAllocSize})
    \/ KasanFreeHook
    \/ ReAllocateHook(WrapReSizes)

SpecSizes == Init /\ [][NextSizes]_vars

\* the shadow addresses kasan_bug_report is called with: the first, a middle
\* and the last byte of a row
ReportShadowAddrs ==
    {MEM_SHADOW_START + 8, MEM_SHADOW_START + 2 * 16 - 1, MEM_SHADOW_START + 2 * 16}

\* kasan_bug_report called once, for an access of one byte whose shadow byte
\* is the given one
BugReport ==
    /\ checks = 0
    /\ checks' = checks + 1
    /\ \E buggy_shadow_address \in ReportShadowAddrs, is_write \in BOOLEAN :
         LET addr == KASAN_SHADOW_TO_MEM(buggy_shadow_address)
             rep == kasan_bug_report(addr, 1, buggy_shadow_address, is_write)
         IN  /\ log' = Append(log, rep)
             /\ last' = [NoOp EXCEPT !.op = "report", !.ptr = addr, !.size = 1,
                                     !.write = is_write, !.trace = ShadowDumps(<<rep>>)]
    /\ UNCHANGED <<g_kasan_initialized, g_shadow_mem_end, g_low_mem_end, g_high_mem_end,
                   shadow, hdr, alloc, mem, steps, inits>>

\* the reports: one check or one report applied to each state
NextReport ==
    \/ KasanInitialize
    \/ CheckOnce
    \/ BugReport

SpecReport == InitCheck /\ [][NextReport]_vars

\* the operations that write shadow memory, two of them per behaviour
ShortRun == steps < MaxShadowOps

NextWrites ==
    \/ KasanInitialize
    \/ ShortRun /\ KasanAllocateHook
    \/ ShortRun /\ KasanFreeHook
    \/ ShortRun /\ KasanReAllocateHook
    \/ ShortRun /\ RegisterGlobals(UnregisterTables)
    \/ asan_set_shadow

SpecWrites == Init /\ [][NextWrites]_vars

TypeOK ==
    /\ g_kasan_initialized \in BOOLEAN
    /\ shadow \in [ShadowAddrs -> Byte]
    /\ \A b \in Blocks : alloc[b] \in {Free} \cup AllocSizes
    /\ steps \in 0 .. MaxSteps
    /\ checks \in 0 .. MaxChecks

\* ------------------------------------------------------------------------
\* Properties
\* ------------------------------------------------------------------------
\* a read and a write check of [addr, addr+size) in the current state
Accepts(addr, size) == \A w \in BOOLEAN : kasan_check_memory(addr, size, w).ret = 1
Rejects(addr, size) == \A w \in BOOLEAN : kasan_check_memory(addr, size, w).ret = 0

\* the ranges <<addr, size>> of 1..MaxAccess bytes lying inside [lo, hi)
RangesWithin(lo, hi) ==
    {r \in (lo .. (hi - 1)) \X (1 .. MaxAccess) : r[1] + r[2] <= hi}

\* the ranges <<addr, size>> of 1..MaxAccess bytes touching a byte of [lo, hi)
RangesTouching(lo, hi) ==
    {r \in ((lo - MaxAccess + 1) .. (hi - 1)) \X (1 .. MaxAccess) : r[1] + r[2] > lo}

C2_FreedPayloadRejected ==
    (last.op = "free" /\ last.ptr # NULL /\ g_kasan_initialized) =>
        \A r \in RangesWithin(last.ptr, last.ptr + last.old) : Rejects(r[1], r[2])

C2_Witness ==
    /\ last.op = "free" /\ last.ptr # NULL /\ g_kasan_initialized
    /\ last.old = MaxAllocSize
    /\ Rejects(last.ptr, 1)
    /\ Rejects(last.ptr + last.old - 1, 1)

\* C3 as stated: after a successful reallocate(ptr, S2) of a live block of
\* size S1, every access inside the old payload [ptr, ptr+S1) is rejected,
\* whichever block the allocator returned.
C3_StalePointerRejected ==
    (last.op = "realloc" /\ last.ptr # NULL /\ last.ret # NULL /\ g_kasan_initialized) =>
        \A r \in RangesWithin(last.ptr, last.ptr + last.old) : Rejects(r[1], r[2])

\* C3 amended: after a successful reallocate(ptr, S2) of a live block of size
\* S1, an access inside the old payload [ptr, ptr+S1) is rejected, except
\* when the allocator resized the block in place (the returned pointer is
\* ptr): then the accesses inside [ptr, ptr+S2) are accepted and the others
\* rejected.
C3_StalePointerRejectedUnlessInPlace ==
    (last.op = "realloc" /\ last.ptr # NULL /\ last.ret # NULL /\ g_kasan_initialized) =>
        \A r \in RangesWithin(last.ptr, last.ptr + last.old) :
            IF last.ret = last.ptr /\ r[1] + r[2] <= last.ptr + last.size
            THEN Accepts(r[1], r[2])
            ELSE Rejects(r[1], r[2])

\* a reallocation that moved the allocation to another block
C3_Witness ==
    /\ last.op = "realloc" /\ last.ptr # NULL /\ last.ret # NULL /\ g_kasan_initialized
    /\ last.ret # last.ptr
    /\ last.old > 0
    /\ Rejects(last.ptr, 1)

\* C4: after reallocate(ptr, S2) returns a non-null q, every access inside
\* [q, q+S2) is accepted and every access at offset S2 from q is rejected.
C4_ReallocatedBounds ==
    (last.op = "realloc" /\ last.ret # NULL /\ g_kasan_initialized) =>
        LET q == last.ret
            S2 == last.size
        IN  /\ \A r \in RangesWithin(q, q + S2) : Accepts(r[1], r[2])
            /\ \A n \in 1 .. MaxAccess : Rejects(q + S2, n)

\* a block shrunk in place
C4_Witness ==
    /\ last.op = "realloc" /\ last.ret # NULL /\ g_kasan_initialized
    /\ last.ret = last.ptr
    /\ 0 < last.size /\ last.size < last.old
    /\ Accepts(last.ret, last.size)
    /\ Rejects(last.ret + last.size, 1)

\* the shadow addresses covering [lo, hi)
ShadowOf(lo, hi) == {KASAN_MEM_TO_SHADOW(b) : b \in lo .. (hi - 1)}

\* C5: when reallocate(ptr, n) on a live block gets null from the allocator,
\* it returns null, emits no report, leaves the header and the allocation as
\* they were, and leaves every shadow byte of [ptr, ptr+oldAlignedSize)
\* holding the freed tag, so that accesses to the old payload (probed with
\* one byte and with MaxAccess bytes) are rejected.
C5_FailedReallocPoisonsOld ==
    [][(steps' = steps + 1 /\ last'.op = "realloc"
        /\ last'.ptr # NULL /\ last'.ret = NULL) =>
          LET ptr == last'.ptr
              blk == ptr - KASAN_HEAP_HEAD_REDZONE_SIZE
              payload == ShadowOf(ptr, ptr + hdr[blk])
          IN  /\ log' = log
              /\ hdr' = hdr
              /\ alloc' = alloc
              /\ hdr[blk] = RoundUp8(alloc[blk])
              /\ \A a \in payload : shadow'[a] = ASAN_SHADOW_HEAP_FREE_MAGIC
              /\ \A a \in ShadowAddrs \ payload : shadow'[a] = shadow[a]
              /\ g_kasan_initialized =>
                   \A r \in RangesWithin(ptr, ptr + hdr[blk]) :
                       r[2] \in {1, MaxAccess} => Rejects(r[1], r[2])'
      ]_vars

C5_Witness ==
    /\ last.op = "realloc" /\ last.ptr # NULL /\ last.ret = NULL /\ g_kasan_initialized
    /\ last.old = MaxAllocSize
    /\ alloc[last.ptr - KASAN_HEAP_HEAD_REDZONE_SIZE] = last.old
    /\ Rejects(last.ptr, 1)

\* C6: after initialization and registerAll, every access inside
\* [start, start+S) of each descriptor is accepted and every access touching
\* a byte at an offset in [S, size_with_redzone) is rejected.
C6_GlobalBounds ==
    (last.op = "register" /\ g_kasan_initialized) =>
        \A i \in 1 .. Len(last.table) :
            LET g == last.table[i]
            IN  /\ \A r \in RangesWithin(g.start, g.start + g.size) : Accepts(r[1], r[2])
                /\ \A r \in RangesTouching(g.start + g.size,
                                           g.start + g.size_with_redzone) :
                     Rejects(r[1], r[2])

C6_Witness ==
    /\ last.op = "register" /\ g_kasan_initialized
    /\ Len(last.table) = 2
    /\ last.table[1].size % KASAN_SHADOW_GRANULE_SIZE # 0
    /\ Accepts(last.table[1].start + last.table[1].size - 1, 1)
    /\ Rejects(last.table[1].start + last.table[1].size, 1)
    /\ Rejects(last.table[1].start + last.table[1].size_with_redzone - 1, 1)

\* the addresses next to the boundaries of the memory map and the check window
Boundaries ==
    {CheckWindow, MEM_SHADOW_START, MEM_SHADOW_START + ShadowMemSize, LowMemSize,
     GIGABYTE, GIGABYTE + HighMemSize}
ProbeAddrs == UNION {(b - MaxAccess) .. (b + 1) : b \in Boundaries}

\* the ranges <<addr, size>> of 0..MaxAccess bytes that start or end next to
\* a boundary
ProbeRanges ==
    {r \in ProbeAddrs \X (0 .. MaxAccess) :
        \E b \in Boundaries : \/ r[1] \in (b - 1) .. (b + 1)
                              \/ r[1] + r[2] \in (b - 1) .. (b + 1)}

\* C7: while the readiness flag is unset, every check is accepted and
\* produces no report, whatever the shadow memory holds.
C7_UncheckedBeforeInit ==
    ~g_kasan_initialized =>
        /\ log = <<>>
        /\ last.op = "check" => last.ret = 1
        /\ \A p \in ProbeRanges, w \in BOOLEAN :
             LET r == kasan_check_memory(p[1], p[2], w)
             IN  r.ret = 1 /\ r.reports = <<>>

\* a check of a poisoned byte performed, and accepted, before initialization
C7_Witness ==
    /\ ~g_kasan_initialized
    /\ last.op = "check" /\ last.ret = 1 /\ last.size > 0
    /\ shadow[KASAN_MEM_TO_SHADOW(last.ptr)] = ASAN_SHADOW_RESERVED_MAGIC
    /\ log = <<>>

\* the first non-zero shadow byte among those covering [addr, addr+size)
FirstPoisoned(addr, size) ==
    Min({a \in ShadowOf(addr, addr + size) : shadow[a] # 0})

\* C8: a rejected check appends exactly one report, carrying the call's
\* address, size and read/write flag and the shadow address of the first
\* non-zero shadow byte of the range; an accepted check appends none.
C8_OneReportPerRejection ==
    [][CheckAccess =>
          IF last'.ret = 0
          THEN /\ Len(log') = Len(log) + 1
               /\ SubSeq(log', 1, Len(log)) = log
               /\ LET rep == log'[Len(log')]
                  IN  /\ rep.addr = last'.ptr
                      /\ rep.size = last'.size
                      /\ rep.is_write = last'.write
                      /\ rep.shadow = FirstPoisoned(last'.ptr, last'.size)
          ELSE /\ last'.ret = 1
               /\ log' = log
      ]_vars

\* two checks done, the second one rejected, one report in the log
C8_Witness ==
    /\ checks = 2
    /\ last.op = "check" /\ last.ret = 0
    /\ Len(log) = 1
    /\ log[1].addr = last.ptr /\ log[1].is_write = last.write

\* byte b is accessible under the granule encoding of its shadow byte
ByteAccessible(b) ==
    LET v == shadow[KASAN_MEM_TO_SHADOW(b)]
    IN  \/ v = 0
        \/ v \in 1 .. 7 /\ b % KASAN_SHADOW_GRANULE_SIZE < v

\* the ranges around the check window, whose shadow bytes are drawn from
\* {0, 1..7, reserved tags}
WindowRanges ==
    RangesWithin(CheckWindow - KASAN_SHADOW_GRANULE_SIZE,
                 CheckWindow + 3 * KASAN_SHADOW_GRANULE_SIZE)

\* C9: after initialization, a check of a non-empty range that is not
\* fast-accepted is accepted if and only if every byte of the range is
\* accessible under the granule encoding.
C9_GranuleEncoding ==
    g_kasan_initialized =>
        \A r \in WindowRanges :
            ~FastAcceptRegion(r[1], r[2]) =>
                \A w \in BOOLEAN :
                    (kasan_check_memory(r[1], r[2], w).ret = 1)
                        <=> (\A b \in r[1] .. (r[1] + r[2] - 1) : ByteAccessible(b))

\* a one-byte check whose own shadow byte holds a reserved tag, rejected, and
\* a partial granule
C9_Witness ==
    /\ g_kasan_initialized
    /\ last.op = "check" /\ last.size = 1 /\ last.ret = 0
    /\ shadow[KASAN_MEM_TO_SHADOW(last.ptr)] = ASAN_SHADOW_RESERVED_MAGIC
    /\ shadow[KASAN_MEM_TO_SHADOW(CheckWindow)] = 7
    /\ Accepts(CheckWindow, 7)
    /\ Rejects(CheckWindow, KASAN_SHADOW_GRANULE_SIZE)

\* the regions of the memory map
InShadowRegion(b) == MEM_SHADOW_START <= b /\ b < MEM_SHADOW_START + ShadowMemSize
InIOWindow(b) == LowMemSize <= b /\ b < GIGABYTE

\* the fast-accept conditions as the claim lists them
FastAcceptCase(addr, size) ==
    \/ size = 0
    \/ \A b \in addr .. (addr + size - 1) : InShadowRegion(b)
    \/ \A b \in addr .. (addr + size - 1) : InIOWindow(b)
    \/ addr + size - 1 >= GIGABYTE + HighMemSize

\* C10: a check of an empty range, of a range lying wholly within the shadow
\* region or wholly within the I/O window, or of a range ending at or beyond
\* the top of high memory is accepted without any shadow lookup or report;
\* after initialization no other range is, in particular none that only
\* partly overlaps the shadow region or the I/O window.
C10_FastAccept ==
    \A p \in ProbeRanges, w \in BOOLEAN :
        LET r == kasan_check_memory(p[1], p[2], w)
        IN  /\ FastAcceptCase(p[1], p[2]) =>
                 r.ret = 1 /\ r.reports = <<>> /\ r.lookups = {}
            /\ (g_kasan_initialized /\ ~FastAcceptCase(p[1], p[2])) => r.lookups # {}

\* a poisoned range inside the shadow region accepted without lookup, the
\* ranges straddling its two ends looked up
C10_Witness ==
    /\ g_kasan_initialized
    /\ shadow[KASAN_MEM_TO_SHADOW(MEM_SHADOW_START)] = ASAN_SHADOW_RESERVED_MAGIC
    /\ kasan_check_memory(MEM_SHADOW_START, 1, TRUE).lookups = {}
    /\ kasan_check_memory(MEM_SHADOW_START, 1, TRUE).ret = 1
    /\ kasan_check_memory(MEM_SHADOW_START - 1, 2, TRUE).ret = 0
    /\ kasan_check_memory(MEM_SHADOW_START + ShadowMemSize - 1, 2, TRUE).ret = 0
    /\ kasan_check_memory(LowMemSize - 1, 2, TRUE).lookups # {}
    /\ last.op = "check"


\* the step is a call of operation op
Did(op) == steps' = steps + 1 /\ last'.op = op

\* the allocator's answer to the request an operation made last
RawResult == last.trace[Len(last.trace)].res

\* C11: when DoAllocate returns null, KasanAllocateHook returns null, emits
\* no report and leaves every shadow byte, every header and the allocation
\* state unchanged.
C11_AllocateOutOfMemory ==
    [][(Did("alloc") /\ RawResult' = NULL) =>
          /\ last'.ret = NULL
          /\ log' = log
          /\ shadow' = shadow
          /\ hdr' = hdr
          /\ alloc' = alloc
      ]_vars

\* an allocation failed after initialization while another block is live
C11_Witness ==
    /\ last.op = "alloc" /\ Len(last.trace) = 1 /\ RawResult = NULL
    /\ last.ret = NULL
    /\ g_kasan_initialized
    /\ \E b \in Blocks : alloc[b] # Free

\* C14: reallocate(null, n) is a step of the body of KasanAllocateHook for
\* size n (same return value, header, shadow state, for the same allocator
\* response); it makes the single request DoAllocate(total size of n) and no
\* DoReAllocate request, and reads no header.
C14_ReallocNullIsAllocate ==
    [][(Did("realloc") /\ last'.ptr = NULL) =>
          /\ Allocate(shadow, last'.size,
                      [NoOp EXCEPT !.op = "realloc", !.size = last'.size])
          /\ Len(last'.trace) = 1
          /\ last'.trace[1].fn = "DoAllocate"
          /\ last'.trace[1].size = kasan_get_allocate_params(last'.size).total_size
          /\ \/ last'.ret = NULL /\ last'.trace[1].res = NULL
             \/ /\ last'.ret = last'.trace[1].res + KASAN_HEAP_HEAD_REDZONE_SIZE
                /\ last'.trace[1].res \in Blocks
                /\ hdr'[last'.trace[1].res] = U(RoundUp8(last'.size))
                /\ shadow' = kasan_shadow_allocated(shadow, last'.trace[1].res, last'.size,
                                                    U(RoundUp8(last'.size)))
      ]_vars

\* reallocate(null, n) returned a fresh block after initialization
C14_Witness ==
    /\ last.op = "realloc" /\ last.ptr = NULL /\ last.ret # NULL
    /\ last.size = MaxAllocSize
    /\ g_kasan_initialized
    /\ alloc[last.ret - KASAN_HEAP_HEAD_REDZONE_SIZE] = last.size

\* C15: free(null) calls neither DoFree nor any other allocator routine,
\* reads no header and leaves shadow memory, headers, the allocation state
\* and the log unchanged.
C15_FreeNullNoOp ==
    [][(Did("free") /\ last'.ptr = NULL) =>
          /\ last'.trace = <<>>
          /\ shadow' = shadow
          /\ hdr' = hdr
          /\ alloc' = alloc
          /\ log' = log
      ]_vars

\* free(null) was called after initialization while a block is live
C15_Witness ==
    /\ last.op = "free" /\ last.ptr = NULL
    /\ g_kasan_initialized
    /\ \E b \in Blocks : alloc[b] # Free

\* the shadow bytes covering the shadow region itself
ShadowOfShadow ==
    KASAN_MEM_TO_SHADOW(MEM_SHADOW_START)
        .. KASAN_MEM_TO_SHADOW(MEM_SHADOW_START + ShadowMemSize - 1)

\* the readiness flag implies the stored bounds and the reserved shadow region
C16_Ready ==
    g_kasan_initialized =>
        /\ g_shadow_mem_end = MEM_SHADOW_START + ShadowMemSize
        /\ g_low_mem_end = LowMemSize
        /\ g_high_mem_end = GIGABYTE + HighMemSize
        /\ \A a \in ShadowOfShadow : shadow[a] = ASAN_SHADOW_RESERVED_MAGIC

C12_PoisonThenUnpoison ==
    [][(/\ Did("unpoison")
        /\ last.op = "poison"
        /\ last'.ptr = last.ptr /\ last'.size = last.size
        /\ last.ptr % KASAN_SHADOW_GRANULE_SIZE = 0
        /\ last.size % KASAN_SHADOW_GRANULE_SIZE = 0) =>
          \A a \in ShadowOf(last.ptr, last.ptr + last.size) : shadow'[a] = 0
      ]_vars

\* two granules were poisoned with the reserved tag and then unpoisoned
C12_Witness ==
    /\ last.op = "unpoison"
    /\ last.ptr = CheckWindow + KASAN_SHADOW_GRANULE_SIZE
    /\ last.size = 2 * KASAN_SHADOW_GRANULE_SIZE
    /\ steps = 2
    /\ \A a \in ShadowOf(last.ptr, last.ptr + last.size) : shadow[a] = 0
    /\ \E a \in ShadowAddrs : shadow[a] = ASAN_SHADOW_RESERVED_MAGIC

\* C18: a shadow-set routine called with (address, size) sets exactly the
\* size shadow bytes from address on to its tag and changes no other shadow
\* byte, with the readiness flag set or unset; it produces no report and
\* changes neither the flag nor the bounds nor the headers.
C18_SetShadowExact ==
    [][Did("set_shadow") =>
          /\ last'.value \in SetShadowBytes
          /\ \A a \in ShadowAddrs :
               shadow'[a] = IF last'.ptr <= a /\ a < last'.ptr + last'.size
                            THEN last'.value ELSE shadow[a]
          /\ log' = log
          /\ UNCHANGED <<g_kasan_initialized, g_shadow_mem_end, g_low_mem_end,
                         g_high_mem_end, hdr, alloc>>
      ]_vars

\* before initialization, two shadow bytes were set to the stack left
\* redzone tag, the byte after them was left as it was
C18_Witness ==
    /\ ~g_kasan_initialized
    /\ last.op = "set_shadow" /\ last.size = 2 /\ last.value = 241
    /\ shadow[last.ptr] = 241 /\ shadow[last.ptr + 1] = 241
    /\ shadow[last.ptr + 2] # 241

\* the step is a call of one of the empty hooks
DidEmptyHook ==
    \/ Did("unregister")
    \/ Did("no_return")
    \/ Did("before_dynamic_init")
    \/ Did("after_dynamic_init")

\* C19: __asan_unregister_globals, __asan_handle_no_return and the dynamic
\* initialization hooks leave shadow memory, the bounds, the readiness flag,
\* the headers and the log unchanged; after initialization, every access of
\* one byte or of MaxAccess bytes touching the redzone of a global registered
\* by the preceding call is still rejected after __asan_unregister_globals.
C19_EmptyHooks ==
    /\ [][DidEmptyHook =>
            UNCHANGED <<shadow, g_shadow_mem_end, g_low_mem_end, g_high_mem_end,
                        g_kasan_initialized, hdr, alloc, log, mem>>]_vars
    /\ [][(Did("unregister") /\ last.op = "register" /\ g_kasan_initialized) =>
            \A i \in 1 .. Len(last.table) :
                \A r \in RangesTouching(last.table[i].start + last.table[i].size,
                                        last.table[i].start
                                            + last.table[i].size_with_redzone) :
                    r[2] \in {1, MaxAccess} => Rejects(r[1], r[2])']_vars

\* a registered table was unregistered after initialization: the redzone of
\* its first global still holds the redzone tag
C19_Witness ==
    /\ last.op = "unregister" /\ g_kasan_initialized
    /\ Len(last.table) = 2
    /\ LET g == last.table[1]
       IN  /\ shadow[KASAN_MEM_TO_SHADOW(g.start + g.size_with_redzone - 1)]
                = ASAN_SHADOW_GLOBAL_REDZONE_MAGIC
           /\ Rejects(g.start + g.size, 1)
           /\ Accepts(g.start, g.size)

\* C20: a call of __asan_register_globals with the table the preceding call
\* registered leaves shadow memory as that call left it.
C20_RegisterIdempotent ==
    [][(Did("register") /\ last.op = "register" /\ last'.table = last.table) =>
          shadow' = shadow]_vars

\* a table of two globals was registered twice in a row after initialization
C20_Witness ==
    /\ last.op = "register" /\ last.again
    /\ g_kasan_initialized
    /\ Len(last.table) = 2
    /\ Rejects(last.table[2].start + last.table[2].size, 1)

\* the step is a call of the hook or entry point op
DidCheck(op) == checks' = checks + 1 /\ last'.op = op

\* C13: the memcpy hook reports what the write check of the destination and
\* then the read check of the source report, the memset hook what the write
\* check of the buffer reports; each then does the raw copy or fill and
\* returns its first argument, whether the checks accepted or rejected; a call
\* of a check entry point returns, changing nothing but the log.
C13_ReportAndContinue ==
    /\ [][DidCheck("memcpy") =>
            LET dst == last'.ptr
                src == last'.src
                n == last'.size
            IN  /\ log' = log \o kasan_check_memory(dst, n, TRUE).reports
                              \o kasan_check_memory(src, n, FALSE).reports
                /\ \A a \in DataAddrs :
                     mem'[a] = IF dst <= a /\ a < dst + n THEN mem[src + (a - dst)]
                                                         ELSE mem[a]
                /\ last'.ret = dst]_vars
    /\ [][DidCheck("memset") =>
            LET buf == last'.ptr
                n == last'.size
            IN  /\ log' = log \o kasan_check_memory(buf, n, TRUE).reports
                /\ \A a \in DataAddrs :
                     mem'[a] = IF buf <= a /\ a < buf + n THEN last'.value % 256
                                                         ELSE mem[a]
                /\ last'.ret = buf]_vars
    /\ [][DidCheck("check") =>
            /\ last'.ret \in {0, 1}
            /\ UNCHANGED <<g_kasan_initialized, g_shadow_mem_end, g_low_mem_end,
                           g_high_mem_end, shadow, hdr, alloc, mem>>]_vars

\* after initialization a memcpy of a granule was reported for its
\* destination and for its source, and the granule was copied
C13_Witness ==
    /\ g_kasan_initialized
    /\ last.op = "memcpy" /\ last.size = KASAN_SHADOW_GRANULE_SIZE
    /\ last.ptr = CheckWindow
    /\ checks = 1 /\ Len(log) = 2
    /\ log[1].is_write /\ log[1].addr = last.ptr
    /\ ~log[2].is_write /\ log[2].addr = last.src
    /\ \A i \in 0 .. (last.size - 1) : mem[last.ptr + i] = (last.src + i) % 256
    /\ last.ret = last.ptr

\* C17 as stated: a call of an entry point with (addr) or (addr, N) has the
\* return value and the reports of kasan_check_memory(addr, w or N, isWrite),
\* isWrite being false for the load and true for the store entry points.
C17_EntryPointsExact ==
    [][DidCheck("check") =>
          LET r == kasan_check_memory(last'.ptr, last'.size, EntryIsWrite(last'.entry))
          IN  /\ last'.ret = r.ret
              /\ log' = log \o r.reports]_vars

\* what holds of the entry points: the fixed-width ones are exact, the
\* N-byte ones are exact for addresses and sizes that unsigned int holds
C17_EntryPointsExactInUInt ==
    [][(/\ DidCheck("check")
        /\ \/ last'.entry \in FixedEntryPoints
           \/ last'.ptr < 2 ^ UIntBits /\ last'.size < 2 ^ UIntBits) =>
          LET r == kasan_check_memory(last'.ptr, last'.size, EntryIsWrite(last'.entry))
          IN  /\ last'.ret = r.ret
              /\ log' = log \o r.reports]_vars

\* C21: after a successful allocate(n) on the block starting at B the
\* allocator was asked for roundUp8(n) + HEAD_RZ + TAIL_RZ bytes, the header at
\* B holds roundUp8(n), the returned pointer is B + HEAD_RZ, the shadow bytes
\* of the head redzone hold the head-redzone tag and those of the tail redzone
\* the tail-redzone tag; after initialization the byte just before the payload
\* is rejected.
C21_AllocateLayout ==
    (last.op = "alloc" /\ last.ret # NULL) =>
        LET B == last.trace[1].res
            n == last.size
            tail == B + KASAN_HEAP_HEAD_REDZONE_SIZE + RoundUp8(n)
        IN  /\ Len(last.trace) = 1
            /\ last.trace[1].fn = "DoAllocate"
            /\ last.trace[1].size
                 = RoundUp8(n) + KASAN_HEAP_HEAD_REDZONE_SIZE + KASAN_HEAP_TAIL_REDZONE_SIZE
            /\ hdr[B] = RoundUp8(n)
            /\ last.ret = B + KASAN_HEAP_HEAD_REDZONE_SIZE
            /\ \A a \in ShadowOf(B, B + KASAN_HEAP_HEAD_REDZONE_SIZE) :
                 shadow[a] = ASAN_SHADOW_HEAP_HEAD_REDZONE_MAGIC
            /\ \A a \in ShadowOf(tail, tail + KASAN_HEAP_TAIL_REDZONE_SIZE) :
                 shadow[a] = ASAN_SHADOW_HEAP_TAIL_REDZONE_MAGIC
            /\ g_kasan_initialized => Rejects(last.ret - 1, 1)

\* an allocation of MaxAllocSize bytes on the second block, after
\* initialization
C21_Witness ==
    /\ last.op = "alloc" /\ last.ret # NULL /\ g_kasan_initialized
    /\ last.size = MaxAllocSize
    /\ last.trace[1].res = GIGABYTE + BlockSize
    /\ hdr[last.trace[1].res] = RoundUp8(MaxAllocSize)
    /\ Rejects(last.ret - 1, 1)
    /\ Accepts(last.ret, 1)

\* C22: free(ptr) of a live allocation reads the aligned size from the header
\* at ptr - HEAD_RZ, then calls DoFree once, with the header address, and sets
\* exactly the shadow bytes covering [ptr, ptr + alignedSize) to the freed tag;
\* every other shadow byte, those of the head and tail redzones included, is
\* unchanged.
C22_FreeFrame ==
    [][(Did("free") /\ last'.ptr # NULL) =>
          LET ptr == last'.ptr
              blk == ptr - KASAN_HEAP_HEAD_REDZONE_SIZE
              payload == ShadowOf(ptr, ptr + hdr[blk])
          IN  /\ last'.trace = <<Call("hdr", blk, 0, hdr[blk]), Call("DoFree", blk, 0, 0)>>
              /\ hdr[blk] = RoundUp8(alloc[blk])
              /\ \A a \in ShadowAddrs :
                   shadow'[a] = IF a \in payload THEN ASAN_SHADOW_HEAP_FREE_MAGIC
                                                ELSE shadow[a]
              /\ hdr' = hdr
      ]_vars

\* after initialization an allocation of MaxAllocSize bytes was freed: its
\* payload holds the freed tag, its redzones their own tags
C22_Witness ==
    /\ last.op = "free" /\ last.ptr # NULL /\ g_kasan_initialized
    /\ last.old = MaxAllocSize
    /\ shadow[KASAN_MEM_TO_SHADOW(last.ptr)] = ASAN_SHADOW_HEAP_FREE_MAGIC
    /\ shadow[KASAN_MEM_TO_SHADOW(last.ptr - 1)] = ASAN_SHADOW_HEAP_HEAD_REDZONE_MAGIC
    /\ shadow[KASAN_MEM_TO_SHADOW(last.ptr + RoundUp8(last.old))]
         = ASAN_SHADOW_HEAP_TAIL_REDZONE_MAGIC

\* C23: for a granule-aligned address A and every size n, unpoison(A, n) sets
\* the shadow bytes of the full granules of [A, A + (n & ~7)) to 0, sets the
\* shadow byte of the granule at A + (n & ~7) to n & 7 when that is not zero,
\* and changes no other shadow byte; for n in 0..7 no shadow byte other than
\* the one of A's own granule is written.
C23_UnpoisonFrame ==
    [][(Did("unpoison") /\ last'.ptr % KASAN_SHADOW_GRANULE_SIZE = 0) =>
          LET A == last'.ptr
              n == last'.size
              whole == n - (n % KASAN_SHADOW_GRANULE_SIZE)
              full == ShadowOf(A, A + whole)
              part == KASAN_MEM_TO_SHADOW(A + whole)
          IN  /\ \A a \in ShadowAddrs :
                   shadow'[a] = IF a \in full THEN ASAN_SHADOW_UNPOISONED_MAGIC
                                ELSE IF a = part /\ n % KASAN_SHADOW_GRANULE_SIZE # 0
                                     THEN n % KASAN_SHADOW_GRANULE_SIZE
                                     ELSE shadow[a]
              /\ n < KASAN_SHADOW_GRANULE_SIZE =>
                   \A a \in ShadowAddrs \ {KASAN_MEM_TO_SHADOW(A)} : shadow'[a] = shadow[a]
      ]_vars

\* two granules were poisoned and then 4 bytes from the first granule's start
\* unpoisoned: the first granule is a 4-byte prefix, the second still poisoned
C23_Witness ==
    /\ last.op = "unpoison" /\ steps = 2
    /\ last.ptr = CheckWindow /\ last.size = 4
    /\ shadow[KASAN_MEM_TO_SHADOW(CheckWindow)] = 4
    /\ shadow[KASAN_MEM_TO_SHADOW(CheckWindow + KASAN_SHADOW_GRANULE_SIZE)]
         = ASAN_SHADOW_RESERVED_MAGIC

\* C26: registering a table of globals writes only shadow bytes covering
\* [start, start + size_with_redzone) of its globals: every shadow byte
\* outside these ranges, the ones below toShadow(start) included, is left as
\* it was, so no leading redzone is created.
C26_RegisterFrame ==
    [][Did("register") =>
          LET covered == UNION {ShadowOf(last'.table[i].start,
                                         last'.table[i].start
                                           + last'.table[i].size_with_redzone) :
                                   i \in 1 .. Len(last'.table)}
          IN  /\ \A a \in ShadowAddrs \ covered : shadow'[a] = shadow[a]
              /\ \A a \in ShadowAddrs :
                   a < KASAN_MEM_TO_SHADOW(last'.table[1].start) => shadow'[a] = shadow[a]
      ]_vars

\* a table of two globals was registered after initialization: the byte just
\* below the first global is accepted, the bytes after each global rejected
C26_Witness ==
    /\ last.op = "register" /\ g_kasan_initialized
    /\ Len(last.table) = 2
    /\ shadow[KASAN_MEM_TO_SHADOW(last.table[1].start - 1)] = ASAN_SHADOW_UNPOISONED_MAGIC
    /\ Accepts(last.table[1].start - 1, 1)
    /\ Accepts(last.table[1].start, 1)
    /\ Rejects(last.table[2].start + last.table[2].size, 1)

\* a read of the range is accepted / rejected (the verdict of
\* kasan_check_memory does not depend on the direction of the access)
ReadAccepted(addr, size) == kasan_check_memory(addr, size, FALSE).ret = 1
ReadRejected(addr, size) == kasan_check_memory(addr, size, FALSE).ret = 0

\* the allocation on block b has its whole payload accepted, and the byte
\* before it, in the head redzone, and the byte after it rejected
Intact(b) ==
    LET p == b + KASAN_HEAP_HEAD_REDZONE_SIZE
        n == alloc[b]
    IN  /\ n > 0 => ReadAccepted(p, n)
        /\ ReadRejected(p - 1, 1)
        /\ ReadRejected(p + n, 1)

\* the step is a reallocate of the allocation on block b that got null from
\* the allocator
FailedRealloc(b) ==
    /\ last'.op = "realloc"
    /\ last'.ptr = b + KASAN_HEAP_HEAD_REDZONE_SIZE
    /\ last'.ret = NULL

\* C27 as stated: after initialization, after every allocate, free or
\* reallocate every live allocation that was made by the call, or was intact
\* before it, has its payload accepted and its redzones rejected.
C27_LiveIntact ==
    [][(steps' = steps + 1 /\ g_kasan_initialized) =>
          \A b \in Blocks :
              (alloc'[b] # Free /\ (alloc[b] = Free \/ Intact(b))) => Intact(b)'
      ]_vars

\* C27 amended: after initialization, after every allocate, free or
\* reallocate every live allocation that was made by the call, or was intact
\* before it, has its payload accepted and its redzones rejected, except the
\* one whose reallocate got null from the allocator, which stays live with its
\* payload poisoned as freed; and the call changes no shadow byte covering a
\* live block other than the ones it was called on and returned.
C27_LiveIntactUnlessReallocFailed ==
    [][(steps' = steps + 1) =>
          \A b \in Blocks :
              /\ (g_kasan_initialized /\ alloc'[b] # Free
                    /\ (alloc[b] = Free \/ Intact(b))) =>
                   IF FailedRealloc(b)
                   THEN Rejects(b + KASAN_HEAP_HEAD_REDZONE_SIZE, 1)'
                   ELSE Intact(b)'
              /\ (alloc[b] # Free
                    /\ b + KASAN_HEAP_HEAD_REDZONE_SIZE \notin {last'.ptr, last'.ret}) =>
                   \A a \in KASAN_MEM_TO_SHADOW(b)
                               .. KASAN_MEM_TO_SHADOW(b + KASAN_HEAP_HEAD_REDZONE_SIZE + hdr[b]
                                                        + KASAN_HEAP_TAIL_REDZONE_SIZE - 1) :
                       shadow'[a] = shadow[a]
      ]_vars

\* after initialization two allocations were made and the first one freed:
\* the second, of MaxAllocSize bytes, is intact
C27_Witness ==
    /\ g_kasan_initialized /\ steps = 3
    /\ last.op = "free" /\ last.ptr = GIGABYTE + KASAN_HEAP_HEAD_REDZONE_SIZE
    /\ alloc[GIGABYTE + BlockSize] = MaxAllocSize
    /\ Intact(GIGABYTE + BlockSize)

\* C28: after initialization, when allocate(n) is given a block that was
\* freed earlier, whose shadow still carries the tags of the old allocation,
\* every offset in [0, n) from the returned pointer and the whole payload are
\* accepted and offset n is rejected; the pointer freed by the previous call
\* is accepted again when the block it pointed into is the one reused.
C28_ReuseEstablishesPayload ==
    [][\A b \in Blocks, n \in AllocSizes :
          (/\ Did("alloc") /\ g_kasan_initialized
           /\ last'.ret = b + KASAN_HEAP_HEAD_REDZONE_SIZE /\ last'.size = n
           /\ shadow[KASAN_MEM_TO_SHADOW(b)] = ASAN_SHADOW_HEAP_HEAD_REDZONE_MAGIC) =>
             LET p == b + KASAN_HEAP_HEAD_REDZONE_SIZE
             IN  /\ \A o \in 0 .. (n - 1) : Accepts(p + o, 1)'
                 /\ n > 0 => Accepts(p, n)'
                 /\ Rejects(p + n, 1)'
                 /\ (last.op = "free" /\ last.ptr = p /\ n > 0) =>
                      Rejects(p, 1) /\ Accepts(p, 1)'
      ]_vars

\* an allocation of MaxAllocSize bytes was freed and its block reused for one
\* of 8 bytes: the last granule of the old tail redzone still holds its tag
C28_Witness ==
    /\ last.op = "alloc" /\ last.ret # NULL /\ g_kasan_initialized /\ steps = 3
    /\ last.size = KASAN_SHADOW_GRANULE_SIZE
    /\ shadow[KASAN_MEM_TO_SHADOW(last.ret + last.size + KASAN_HEAP_TAIL_REDZONE_SIZE)]
         = ASAN_SHADOW_HEAP_TAIL_REDZONE_MAGIC
    /\ Accepts(last.ret, last.size)
    /\ Rejects(last.ret + last.size, 1)

\* C24: no operation that writes shadow memory produces a report: a step of
\* allocate, free, reallocate, the registration of globals, a shadow-set
\* routine or initialize leaves the log as it was, whatever the shadow memory
\* holds and also when the shadow bytes written cover the shadow region
\* itself.
C24_WritersNeverReport ==
    [][((steps' = steps + 1 \/ inits' = inits + 1)
          /\ last'.op \in {"alloc", "free", "realloc", "register", "set_shadow", "init"}) =>
            log' = log]_vars

\* after initialization an allocation was freed, which read its header inside
\* the poisoned head redzone and poisoned the payload, with no report
C24_Witness ==
    /\ g_kasan_initialized /\ last.op = "free" /\ last.ptr # NULL
    /\ Rejects(last.ptr - KASAN_HEAP_HEAD_REDZONE_SIZE, 1)
    /\ Rejects(last.ptr, 1) \/ last.old = 0
    /\ \A a \in ShadowOfShadow : shadow[a] = ASAN_SHADOW_RESERVED_MAGIC
    /\ log = <<>>

\* C29: after every call of initialize, first or repeated, the shadow bytes
\* covering the shadow region hold the reserved tag and every other byte of
\* the shadow region is 0, whatever allocate, the registration of globals or
\* a shadow-set routine wrote before; the redzones of the allocations and
\* globals made before the call are accepted.
C29_InitializeResets ==
    (last.op = "init") =>
        /\ \A a \in MEM_SHADOW_START .. (MEM_SHADOW_START + ShadowMemSize - 1) :
             shadow[a] = IF a \in ShadowOfShadow THEN ASAN_SHADOW_RESERVED_MAGIC
                                                 ELSE ASAN_SHADOW_UNPOISONED_MAGIC
        /\ \A b \in Blocks :
             /\ Accepts(b, 1)
             /\ Accepts(b + KASAN_HEAP_HEAD_REDZONE_SIZE - 1, KASAN_SHADOW_GRANULE_SIZE)
             /\ Accepts(b + KASAN_HEAP_HEAD_REDZONE_SIZE + hdr[b], 1)
        /\ \A g \in GlobalSizes : Accepts(GlobalsStart + g, 1)

\* a second call of initialize, in a state with a live allocation and a
\* header written by an allocation
C29_Witness ==
    /\ last.op = "init" /\ inits = 2 /\ steps = MaxShadowOps
    /\ \E b \in Blocks : alloc[b] = MaxAllocSize /\ hdr[b] = RoundUp8(MaxAllocSize)
                         /\ Accepts(b + KASAN_HEAP_HEAD_REDZONE_SIZE + hdr[b], 1)
    /\ shadow[KASAN_MEM_TO_SHADOW(GIGABYTE)] = ASAN_SHADOW_UNPOISONED_MAGIC

\* the row of 16 bytes starting at address is printed with each byte once,
\* in ascending order, with the digits of the byte that memory holds
RowPrinted(row, address) ==
    /\ row.address = address
    /\ Len(row.text) = 16
    /\ \A k \in 1 .. 16 :
         /\ row.text[k].at = address + (k - 1)
         /\ row.text[k].hex[1] * 16 + row.text[k].hex[2] = Peek(address + (k - 1))

\* C25: a report is one header record followed by a dump of exactly 7 rows of
\* 16 bytes, the 3 rows before the row of the violating shadow byte, that row
\* and the 3 rows after it, in ascending order; the violating shadow address
\* translated to a real address and back is the same shadow address; the
\* delimited byte is the one at offset (violating shadow address mod 16) of
\* the middle row and no other byte of the dump is delimited; every byte of
\* each row is printed exactly once.
C25_ReportDump ==
    ((last.op = "report" \/ (last.op = "check" /\ last.ret = 0)) /\ checks = 1) =>
        /\ Len(log) = 1
        /\ Len(last.trace) = 1
        /\ LET rep == log[1]
               dump == last.trace[1]
               rows == dump.rows
               middle == rep.shadow - (rep.shadow % 16)
           IN  /\ rep.addr = last.ptr /\ rep.size = last.size /\ rep.is_write = last.write
               /\ KASAN_MEM_TO_SHADOW(KASAN_SHADOW_TO_MEM(rep.shadow)) = rep.shadow
               /\ dump.title.shadow = rep.shadow
               /\ Len(rows) = 7
               /\ \A k \in 1 .. 7 : RowPrinted(rows[k], middle + (k - 4) * 16)
               /\ \A k \in 1 .. 7, j \in 1 .. 16 :
                    IF k = 4 /\ j = (rep.shadow % 16) + 1
                    THEN /\ rows[k].text[j].pre = "[" /\ rows[k].text[j].post = "]"
                         /\ rows[k].text[j].at = rep.shadow
                    ELSE /\ rows[k].text[j].pre # "[" /\ rows[k].text[j].post = ""

\* a report for the last shadow byte of a row, which holds the reserved tag,
\* has been written
C25_Witness ==
    /\ last.op = "report" /\ Len(log) = 1
    /\ log[1].shadow % 16 = 15
    /\ Peek(log[1].shadow) = ASAN_SHADOW_RESERVED_MAGIC
    /\ last.trace[1].rows[4].text[16].pre = "["
    /\ last.trace[1].rows[4].text[16].hex = <<15, 15>>

\* C30: for every request size n of the range of size_t for which allocate or
\* reallocate returns non-null, the size requested from the allocator is at
\* least n + HEAD_RZ + TAIL_RZ, the header holds roundUp8(n), and the payload
\* and both redzones lie inside the block obtained.
C30_NoWraparound ==
    (last.op \in {"alloc", "realloc"} /\ last.ret # NULL) =>
        LET n == last.size
            call == last.trace[Len(last.trace)]
            B == call.res
        IN  /\ call.size >= n + KASAN_HEAP_HEAD_REDZONE_SIZE + KASAN_HEAP_TAIL_REDZONE_SIZE
            /\ hdr[B] = RoundUp8(n)
            /\ KASAN_HEAP_HEAD_REDZONE_SIZE + RoundUp8(n) + KASAN_HEAP_TAIL_REDZONE_SIZE
                 <= BlockSize

====
